---- MODULE Spec2Model ----
(***************************************************************************)
(* A model of crush_migrations.py: the management command that collapses   *)
(* every application's migration history into an initial migration plus a  *)
(* squash migration.                                                       *)
(*                                                                         *)
(* Text is modelled as what the code does with it:                         *)
(*   - a migration identifier is the sequence of its characters (the       *)
(*     descriptive names are abbreviated to one letter), so the slices     *)
(*     [:4], [4:], [5:] and startswith("0001_") are real slices;           *)
(*   - the content of a file is a sequence of text fragments, a pattern is *)
(*     the sequence of fragments it matches and re.subn replaces every     *)
(*     non-overlapping occurrence, left to right, and counts them.         *)
(***************************************************************************)
EXTENDS Integers, Sequences, FiniteSets, TLC

\* The most migrations an application starts with.
MaxMigs == 3

\* The most replace calls made inside one block of the stand-alone
\* Replacer specification (SpecR).
MaxCalls == 2

Apps == {"a", "b"}

----------------------------------------------------------------------------
\* Characters and identifiers

\* The characters of the model in code point order: Python's sorted()
\* compares strings code point by code point.
CharOrder == <<"\n", "0", "1", "2", "3", "4", "5", "6", "7", "8", "9", "_", "i", "m", "s">>

Ord(c) == CHOOSE k \in 1..Len(CharOrder) : CharOrder[k] = c

Digit(d) == CharOrder[d + 2]

RECURSIVE StrLess(_, _)
StrLess(x, y) ==
    IF Len(y) = 0 THEN FALSE
    ELSE IF Len(x) = 0 THEN TRUE
    ELSE IF Ord(x[1]) # Ord(y[1]) THEN Ord(x[1]) < Ord(y[1])
    ELSE StrLess(Tail(x), Tail(y))

\* sorted(p.stem for p in ...): the ascending sequence of a set of strings
RECURSIVE sorted(_)
sorted(S) ==
    IF S = {} THEN <<>>
    ELSE LET least == CHOOSE x \in S : \A y \in S \ {x} : StrLess(x, y)
         IN  <<least>> \o sorted(S \ {least})

\* s[:n] and s[n:]
Take(s, n) == SubSeq(s, 1, IF n < Len(s) THEN n ELSE Len(s))
Drop(s, n) == SubSeq(s, n + 1, Len(s))

startswith(s, p) == Len(s) >= Len(p) /\ Take(s, Len(p)) = p

\* str.strip() for the only whitespace the model has, the newline
RECURSIVE lstrip(_)
lstrip(s) == IF Len(s) > 0 /\ s[1] = "\n" THEN lstrip(Tail(s)) ELSE s
RECURSIVE rstrip(_)
rstrip(s) == IF Len(s) > 0 /\ s[Len(s)] = "\n"
             THEN rstrip(SubSeq(s, 1, Len(s) - 1)) ELSE s
strip(s) == rstrip(lstrip(s))

\* "%04i" % n
Pad4(n) == <<Digit((n \div 1000) % 10), Digit((n \div 100) % 10),
             Digit((n \div 10) % 10), Digit(n % 10)>>

Prefix0001 == <<"0", "0", "0", "1", "_">>

\* The identifier the migration framework gives migration number n named name
MigrationId(n, name) == Pad4(n) \o <<"_">> \o name

----------------------------------------------------------------------------
\* Text and files

\* Text is a sequence of pieces; an identifier inside text is spelled out
\* character by character.  A path is its directory, stem and extension.

\* get_migration_path(app, migration, ext): "{app}/migrations/{migration}.{ext}"
get_migration_path(app, migration, ext) ==
    [dir |-> <<app, "migrations">>, stem |-> migration, ext |-> ext]

\* get_max_migration_path(app)
get_max_migration_path(app) == get_migration_path(app, <<"max_migration">>, "txt")

\* get_dep_entry(app, migration): the text ("{app}", "{migration}")
get_dep_entry(app, migration) ==
    <<"(", "\"", app, "\", \"">> \o migration \o <<"\"", ")">>

\* What the text of get_dep_entry matches when re.subn takes it as a
\* pattern: its outer parentheses are a regular-expression group, so the
\* pattern matches the text between them.
DepPattern(dep) == SubSeq(dep, 2, Len(dep) - 1)

\* re.subn(pattern, repl, content): every non-overlapping occurrence of the
\* pattern, leftmost first, replaced; <<new content, number of occurrences>>
subn(pat, repl, content) ==
    LET occurs == {i \in 1..(Len(content) - Len(pat) + 1) :
                      SubSeq(content, i, i + Len(pat) - 1) = pat}
        RECURSIVE from(_)
        from(start) ==
            LET later == {i \in occurs : i >= start}
            IN  IF later = {} THEN <<SubSeq(content, start, Len(content)), 0>>
                ELSE LET i == CHOOSE j \in later : \A k \in later : j <= k
                         r == from(i + Len(pat))
                     IN  <<SubSeq(content, start, i - 1) \o repl \o r[1], r[2] + 1>>
    IN  IF Len(pat) = 0 THEN <<content, 0>> ELSE from(1)

RECURSIVE ApplyReplacementsAlwaysAsserts(_, _, _)
ApplyReplacementsAlwaysAsserts(replacements, content, optional) ==
    IF replacements = <<>> THEN [content |-> content, ok |-> TRUE]
    ELSE LET r == subn(replacements[1][1], replacements[1][2], content)
         IN  IF ~(r[2] > 0)
             THEN [content |-> r[1], ok |-> FALSE]
             ELSE ApplyReplacementsAlwaysAsserts(Tail(replacements), r[1], optional)

\* Lines 66-68: the replacements applied in list order to one file's
\* content; ok is FALSE when "assert optional or num_subs" fails.
RECURSIVE ApplyReplacements(_, _, _)
ApplyReplacements(replacements, content, optional) ==
    IF replacements = <<>> THEN [content |-> content, ok |-> TRUE]
    ELSE LET r == subn(replacements[1][1], replacements[1][2], content)
         IN  IF ~(optional \/ r[2] > 0)
             THEN [content |-> r[1], ok |-> FALSE]
             ELSE ApplyReplacements(Tail(replacements), r[1], optional)

\* Replacer.replace(replacements, *files, optional): the files in argument
\* order, each added to to_restore, read, substituted and written; a failed
\* assertion leaves the file it was working on unwritten and stops.
RECURSIVE replace(_, _, _, _, _)
replace(replacements, files, optional, tree, restore) ==
    IF files = <<>> THEN [fs |-> tree, to_restore |-> restore, ok |-> TRUE]
    ELSE LET file == files[1]
             r == ApplyReplacements(replacements, tree[file], optional)
         IN  IF ~r.ok
             THEN [fs |-> tree, to_restore |-> restore \cup {file}, ok |-> FALSE]
             ELSE replace(replacements, Tail(files), optional,
                          [tree EXCEPT ![file] = r.content], restore \cup {file})

\* Files of a tree
WriteFile(tree, path, content) ==
    [p \in DOMAIN tree \cup {path} |-> IF p = path THEN content ELSE tree[p]]

UnlinkKeepsFiles(tree, paths) == tree

Unlink(tree, paths) == [p \in DOMAIN tree \ paths |-> tree[p]]

\* run("git", "checkout", *paths): each path gets its committed content back,
\* whether it was modified or deleted.  Every path the command hands to git
\* is a file git tracks, so the subprocess succeeds.
GitCheckout(tree, index, paths) ==
    [p \in DOMAIN tree \cup paths |-> IF p \in paths THEN index[p] ELSE tree[p]]

\* existing_path.rename(new_path): the target is replaced when it exists
Rename(tree, from, to) ==
    IF from = to THEN tree
    ELSE [p \in (DOMAIN tree \ {from}) \cup {to} |-> IF p = to THEN tree[from] ELSE tree[p]]

\* The stems of the migration files of an application (all *.py of its
\* migration directory but __init__)
MigrationStems(tree, app) ==
    {p.stem : p \in {q \in DOMAIN tree : q.dir = <<app, "migrations">> /\ q.ext = "py"}}

\* list_migrations(): per application the sorted stems and the stripped
\* content of its max_migration.txt
list_migrations(tree) ==
    [migrations |-> [app \in Apps |-> sorted(MigrationStems(tree, app))],
     heads |-> [app \in Apps |-> strip(tree[get_max_migration_path(app)])]]

\* Lines 222-226: the text appended to a squash migration
RECURSIVE ReplacesEntries(_, _)
ReplacesEntries(app, migrations) ==
    IF migrations = <<>> THEN <<>>
    ELSE <<"        ">> \o get_dep_entry(app, migrations[1]) \o <<",\n">>
         \o ReplacesEntries(app, Tail(migrations))

ReplacesText(app, migrations) ==
    <<"    replaces = [\n">> \o ReplacesEntries(app, migrations) \o <<"    ]\n">>

\* The ("app", "migration") pairs a piece of Python text evaluates to, in
\* order; parentheses around a pair do not change it.
Pairs(text) ==
    LET opens == {i \in 1..(Len(text) - 4) :
                     /\ text[i] = "\"" /\ text[i + 2] = "\", \""
                     /\ \E k \in (i + 3)..Len(text) : text[k] = "\""}
        RECURSIVE from(_)
        from(start) ==
            LET later == {i \in opens : i >= start}
            IN  IF later = {} THEN <<>>
                ELSE LET i == CHOOSE j \in later : \A k \in later : j <= k
                         close == CHOOSE k \in (i + 3)..Len(text) :
                                      text[k] = "\"" /\ \A j \in (i + 3)..(k - 1) : text[j] # "\""
                     IN  <<(<<text[i + 1], SubSeq(text, i + 3, close - 1)>>)>>
                         \o from(close + 1)
    IN  from(1)

\* The text of the last list assigned to `name` in a module's text, up to
\* its closing bracket: what the attribute holds once the module is imported.
RECURSIVE LastList(_, _)
LastList(text, open) ==
    IF \E k \in 1..Len(text) : text[k] = open
    THEN LET k == CHOOSE j \in 1..Len(text) : text[j] = open
             later == LastList(Drop(text, k), open)
         IN  IF later.found THEN later
             ELSE LET rest == Drop(text, k)
                      end == CHOOSE j \in 1..(Len(rest) + 1) :
                                 /\ (j = Len(rest) + 1 \/ rest[j] = "    ]\n")
                                 /\ \A i \in 1..(j - 1) : rest[i] # "    ]\n"
                  IN  [found |-> TRUE, text |-> SubSeq(rest, 1, end - 1)]
    ELSE [found |-> FALSE, text |-> <<>>]

\* import_module(name).Migration.replaces
MigrationReplaces(content) == Pairs(LastList(content, "    replaces = [\n").text)

\* The entries of a migration's dependencies list
MigrationDependencies(content) == Pairs(LastList(content, "    dependencies = [\n").text)

----------------------------------------------------------------------------
\* The source tree

AppSeq == <<"a", "b">>

CommonModels == [dir |-> <<"common">>, stem |-> <<"models">>, ext |-> "py"]
ShopModels == [dir |-> <<"a">>, stem |-> <<"models">>, ext |-> "py"]
AdminApps == [dir |-> <<"admin">>, stem |-> <<"apps">>, ext |-> "py"]

\* list_model_files(): every models.py of the tree
list_model_files(tree) == {p \in DOMAIN tree : p.stem = <<"models">> /\ p.ext = "py"}

\* Lines 143-158: the relational-field replacements; each pattern is given
\* as the text it matches, each replacement as its pieces
RelationalPatches ==
    << <<(<<"ForeignKey = ">>), <<"ForeignKey = ", "lambda *args, **kwargs: None and ">> >>,
       <<(<<"OneToOneField = ">>), <<"OneToOneField = ", "lambda *args, **kwargs: None and ">> >>,
       <<(<<"ManyToManyField = ">>), <<"ManyToManyField = ", "lambda *args, **kwargs: None and ">> >>,
       <<(<<"PositiveIntegerField = ">>),
         <<"PositiveIntegerField = ", "lambda *args, **kwargs: None and ">> >>,
       <<(<<"class FirmField(ForeignKey):">>), <<"FirmField = ForeignKey\n", "class X:">> >> >>

\* Lines 166-173
IndexPatches ==
    << <<(<<"        indexes = [">>), <<"        indexes = [", "] and [">> >>,
       <<(<<"        constraints = [">>), <<"        constraints = [", "] and [">> >>,
       <<(<<"        unique_together = [">>), <<"        unique_together = [", "] and [">> >>,
       <<(<<"        indexes = (">>), <<"        indexes = (", ") and (">> >>,
       <<(<<"        constraints = (">>), <<"        constraints = (", ") and (">> >>,
       <<(<<"        unique_together = (">>), <<"        unique_together = (", ") and (">> >> >>

\* Lines 181-187
AdminPatches ==
    << <<(<<"from django.contrib.admin.apps import AdminConfig">>),
         <<"from django.apps import AppConfig as AdminConfig">> >>,
       <<(<<"def ready">>), <<"def xready">> >> >>

\* The committed texts the source files may have
CommonModelsTexts ==
    { <<"ForeignKey = ", "models.ForeignKey\n", "OneToOneField = ", "models.OneToOneField\n",
        "ManyToManyField = ", "models.ManyToManyField\n",
        "PositiveIntegerField = ", "models.PositiveIntegerField\n",
        "class FirmField(ForeignKey):", "\n", "        indexes = [", "]\n">>,
      <<"ForeignKey = ", "models.ForeignKey\n", "OneToOneField = ", "models.OneToOneField\n",
        "ManyToManyField = ", "models.ManyToManyField\n",
        "PositiveIntegerField = ", "models.PositiveIntegerField\n">> }

ShopModelsTexts ==
    { <<"class Shop(Model):\n", "        indexes = [", "]\n",
        "        unique_together = (", ")\n", "        indexes = [", "]\n">>,
      <<"class Shop(Model):\n">> }

AdminAppsTexts ==
    { <<"from django.contrib.admin.apps import AdminConfig", "\n", "def ready", "(self):\n">>,
      <<"from django.contrib.admin.apps import AdminConfig", "\n">> }

\* An application's committed history: the number of its first migration,
\* how many migrations it has, which of them max_migration.txt names and
\* which of them (0: none) declares replaces.
AppConfigs ==
    {c \in [first : {1, 2}, n : 1..MaxMigs, head : 1..MaxMigs, squash : 0..MaxMigs] :
        /\ c.head \in {1, c.n}
        /\ c.squash \in {0, c.n}}

OrigIds(c) ==
    [k \in 1..c.n |-> MigrationId(c.first + k - 1, IF k = 1 THEN <<"i">> ELSE <<"m">>)]

OrigContent(app, c, k) ==
    <<"class Migration:  # committed ", app, " ">> \o OrigIds(c)[k] \o <<"\n">>
    \o (IF c.squash = k THEN ReplacesText(app, <<MigrationId(0, <<"m">>)>>) ELSE <<>>)

CommittedTree(cfg, common, shop, admin) ==
    LET migs(app) == {get_migration_path(app, OrigIds(cfg[app])[k], "py") : k \in 1..cfg[app].n}
        paths == {CommonModels, ShopModels, AdminApps}
                 \cup UNION {migs(app) : app \in Apps}
                 \cup {get_max_migration_path(app) : app \in Apps}
    IN  [p \in paths |->
            IF p = CommonModels THEN common
            ELSE IF p = ShopModels THEN shop
            ELSE IF p = AdminApps THEN admin
            ELSE LET app == p.dir[1]
                     c == cfg[app]
                 IN  IF p.ext = "txt" THEN OrigIds(c)[c.head] \o <<"\n">>
                     ELSE OrigContent(app, c, CHOOSE k \in 1..c.n : OrigIds(c)[k] = p.stem)]

\* The orders a set can be iterated in
Orders(S) == {q \in [1..Cardinality(S) -> S] : \A x \in S : \E k \in DOMAIN q : q[k] = x}

\* sorted(bad_apps)
SortedApps(S) == SelectSeq(AppSeq, LAMBDA x : x \in S)

----------------------------------------------------------------------------
\* The migration framework's generator (manage.py makemigrations), as the
\* subprocess the command shells out to

\* The number in front of an identifier
ParseNumber(id) ==
    (Ord(id[1]) - 2) * 1000 + (Ord(id[2]) - 2) * 100 + (Ord(id[3]) - 2) * 10 + (Ord(id[4]) - 2)

\* The number the next migration of an application gets
NextNumber(tree, app) ==
    LET stems == MigrationStems(tree, app)
    IN  IF stems = {} THEN 1
        ELSE 1 + (CHOOSE n \in {ParseNumber(x) : x \in stems} :
                     \A x \in stems : ParseNumber(x) <= n)

RECURSIVE DependencyEntries(_)
DependencyEntries(deps) ==
    IF deps = <<>> THEN <<>>
    ELSE <<"        ">> \o get_dep_entry(deps[1][1], deps[1][2]) \o <<",\n">>
         \o DependencyEntries(Tail(deps))

GeneratedContent(app, deps) ==
    <<"class Migration:  # generated ", app, "\n", "    dependencies = [\n">>
    \o DependencyEntries(deps) \o <<"    ]\n">>

\* makemigrations writes migration `id` of `app` and names it in the
\* application's max_migration.txt
WriteMigration(tree, app, id, deps) ==
    WriteFile(WriteFile(tree, get_migration_path(app, id, "py"), GeneratedContent(app, deps)),
              get_max_migration_path(app), id \o <<"\n">>)

----------------------------------------------------------------------------
\* State

VARIABLES
    fs,                       \* the working tree: path -> text
    committed,                \* what git has committed: path -> text
    pc,                       \* the statement crush_migrations is at
    error,                    \* the exception that ended the run, "" if none
    order,                    \* the order BASE_DIR.glob yields the applications in
    idx,                      \* the position of the running for loop in order
    current_migrations,       \* line 92
    current_head_migrations,  \* line 92
    new_migrations,           \* line 231
    new_head_migrations,      \* line 231
    replacements,             \* line 232
    to_restore,               \* line 54, of the Replacer block that is open
    auto_revert,              \* line 53, of the Replacer block that is open
    output,                   \* the lines printed by the two precondition checks
    log,                      \* the file changes and subprocess calls made, in order
    block_calls               \* the replace calls made in the open block, with the tree
                              \* each found

vars == <<fs, committed, pc, error, order, idx, current_migrations,
          current_head_migrations, new_migrations, new_head_migrations,
          replacements, to_restore, auto_revert, output, log, block_calls>>

\* line 203: datetime.now().strftime("squashed_on_%Y%m%d_%H%M%S"); no
\* committed migration carries the name of the present second
squash_name == <<"s">>

Event(op, app, arg) == [op |-> op, app |-> app, arg |-> arg]

Call(reps, files, optional, tree) ==
    [replacements |-> reps, files |-> files, optional |-> optional, before |-> tree]

InitWith(cfgs, commons, shops, admins) ==
    /\ \E cfg \in cfgs, common \in commons, shop \in shops, admin \in admins :
            committed = CommittedTree(cfg, common, shop, admin)
    /\ fs = committed
    /\ order \in Orders(Apps)
    /\ error = ""
    /\ idx = 0
    /\ current_migrations = <<>>
    /\ current_head_migrations = <<>>
    /\ new_migrations = <<>>
    /\ new_head_migrations = <<>>
    /\ replacements = <<>>
    /\ to_restore = {}
    /\ output = <<>>
    /\ log = <<>>
    /\ block_calls = <<>>

Init ==
    /\ InitWith([Apps -> AppConfigs], CommonModelsTexts, ShopModelsTexts, AdminAppsTexts)
    /\ pc = "start"
    /\ auto_revert = TRUE

\* An exception leaves the function: nothing after the raising statement runs
Raise(exception) ==
    /\ pc' = "aborted"
    /\ error' = exception

\* The for loops over current_migrations.items() and friends: the next
\* application, or the statement after the loop
Advance(after) ==
    IF idx < Len(order)
    THEN pc' = pc /\ idx' = idx + 1
    ELSE pc' = after /\ idx' = 1

----------------------------------------------------------------------------
\* crush_migrations, lines 91-131: the inventory and the two checks

\* line 92
ListMigrations ==
    /\ pc = "start"
    /\ LET l == list_migrations(fs)
       IN  /\ current_migrations' = l.migrations
           /\ current_head_migrations' = l.heads
    /\ pc' = "check_counts"
    /\ UNCHANGED <<fs, committed, error, order, idx, new_migrations, new_head_migrations,
                   replacements, to_restore, auto_revert, output, log, block_calls>>

InsufficientOffByOne(migrations) == Len(migrations) < 1

\* line 98
Insufficient(migrations) == Len(migrations) < 2

RECURSIVE InsufficientLines(_)
InsufficientLines(apps) ==
    IF apps = <<>> THEN <<>>
    ELSE (IF Insufficient(current_migrations[apps[1]])
          THEN <<(<<apps[1], " has insufficient migrations for crushing">>),
                 <<"find an excuse to make another one">> >>
          ELSE <<>>)
         \o InsufficientLines(Tail(apps))

\* lines 96-103
CheckCounts ==
    /\ pc = "check_counts"
    /\ output' = output \o InsufficientLines(order)
    /\ pc' = IF \E app \in Apps : Insufficient(current_migrations[app])
             THEN "returned" ELSE "check_squashes"
    /\ UNCHANGED <<fs, committed, error, order, idx, current_migrations,
                   current_head_migrations, new_migrations, new_head_migrations,
                   replacements, to_restore, auto_revert, log, block_calls>>

\* lines 110-112: the migration's module declares a non-empty replaces
IsSquash(tree, app, migration) ==
    MigrationReplaces(tree[get_migration_path(app, migration, "py")]) # <<>>

\* lines 107-113
BadApps(tree, migrations) ==
    {app \in Apps : \E k \in DOMAIN migrations[app] : IsSquash(tree, app, migrations[app][k])}

RECURSIVE ExistingSquashLines(_, _)
ExistingSquashLines(app, migrations) ==
    IF migrations = <<>> THEN <<>>
    ELSE (IF IsSquash(fs, app, migrations[1])
          THEN << <<"Existing squash ", app, ".migrations.">> \o migrations[1] >>
          ELSE <<>>)
         \o ExistingSquashLines(app, Tail(migrations))

RECURSIVE AllExistingSquashLines(_)
AllExistingSquashLines(apps) ==
    IF apps = <<>> THEN <<>>
    ELSE ExistingSquashLines(apps[1], current_migrations[apps[1]])
         \o AllExistingSquashLines(Tail(apps))

\* lines 125-126 and 128-129
RECURSIVE DeleteCommands(_)
DeleteCommands(apps) ==
    IF apps = <<>> THEN <<>>
    ELSE << <<"python manage.py delete_squashed_migrations ", apps[1], " --noinput">> >>
         \o DeleteCommands(Tail(apps))

RemedialCommandsUnsorted(bad_apps) ==
    DeleteCommands(SelectSeq(order, LAMBDA x : x \in bad_apps))
    \o << <<"black -l 1000000 */migrations/*.py">> >>
    \o DeleteCommands(SelectSeq(order, LAMBDA x : x \in bad_apps))
    \o << <<"black */migrations/*.py">> >>

\* lines 125-130
RemedialCommands(bad_apps) ==
    DeleteCommands(SortedApps(bad_apps))
    \o << <<"black -l 1000000 */migrations/*.py">> >>
    \o DeleteCommands(SortedApps(bad_apps))
    \o << <<"black */migrations/*.py">> >>

\* lines 116-124
Explanation ==
    << <<"">>,
       <<"Can't crush with existing squashes, clean them up first">>,
       <<"delete_squashed_migrations is whitespace sensitive">>,
       <<"and doesn't handle cross app dependencies well">>,
       <<"so we run it once to delete the files">>,
       <<"then we reformat to very long lines">>,
       <<"and then run it again to remove the 'replaces=' lines">>,
       <<"then we reformat back to normal">>,
       <<"">> >>

\* lines 105-131
CheckSquashes ==
    /\ pc = "check_squashes"
    /\ LET bad_apps == BadApps(fs, current_migrations)
       IN  /\ output' = output \o AllExistingSquashLines(order)
                        \o (IF bad_apps # {} THEN Explanation \o RemedialCommands(bad_apps)
                            ELSE <<>>)
           /\ pc' = IF bad_apps # {} THEN "returned" ELSE "delete"
    /\ idx' = 1
    /\ UNCHANGED <<fs, committed, error, order, current_migrations,
                   current_head_migrations, new_migrations, new_head_migrations,
                   replacements, to_restore, auto_revert, log, block_calls>>

----------------------------------------------------------------------------
\* lines 133-200: deletion and the auto-reverting patch block

MigrationPaths(app, migrations) ==
    {get_migration_path(app, migrations[k], "py") : k \in DOMAIN migrations}

\* lines 134-136, one application of the loop
DeleteMigrations ==
    /\ pc = "delete"
    /\ LET app == order[idx]
       IN  /\ fs' = Unlink(fs, MigrationPaths(app, current_migrations[app]))
           /\ log' = Append(log, Event("unlink", app, <<>>))
    /\ Advance("patch_relational")
    /\ UNCHANGED <<committed, error, order, current_migrations, current_head_migrations,
                   new_migrations, new_head_migrations, replacements, to_restore,
                   auto_revert, output, block_calls>>

\* The Replacer block that is open, and one just entered (line 54)
OpenBlock == [to_restore |-> to_restore, calls |-> block_calls]
NewBlock == [to_restore |-> {}, calls |-> <<>>]

\* A replace call inside the open block: Replacer.replace, lines 56-69
ReplaceCall(what, reps, files, optional, block, after) ==
    LET r == replace(reps, files, optional, fs, block.to_restore)
    IN  /\ fs' = r.fs
        /\ to_restore' = r.to_restore
        /\ block_calls' = Append(block.calls, Call(reps, files, optional, fs))
        /\ log' = Append(log, Event("replace", "", <<what>>))
        /\ IF r.ok THEN pc' = after /\ error' = error
                   ELSE Raise("AssertionError")

\* lines 138-160: the block is entered (to_restore = set(), auto_revert
\* = True) and common/models.py patched
ReplaceRelational ==
    /\ pc = "patch_relational"
    /\ auto_revert' = TRUE
    /\ ReplaceCall("relational", RelationalPatches, <<CommonModels>>, FALSE, NewBlock,
                   "patch_indexes")
    /\ UNCHANGED <<committed, order, idx, current_migrations, current_head_migrations,
                   new_migrations, new_head_migrations, replacements, output>>

\* lines 164-176: every model file, in the order the set is iterated in
ReplaceIndexes ==
    /\ pc = "patch_indexes"
    /\ \E model_files \in Orders(list_model_files(fs)) :
          ReplaceCall("indexes", IndexPatches, model_files, TRUE, OpenBlock, "patch_admin")
    /\ UNCHANGED <<committed, order, idx, current_migrations, current_head_migrations,
                   new_migrations, new_head_migrations, replacements, auto_revert, output>>

\* lines 180-189
ReplaceAdmin ==
    /\ pc = "patch_admin"
    /\ ReplaceCall("admin", AdminPatches, <<AdminApps>>, FALSE, OpenBlock, "generate_initial")
    /\ UNCHANGED <<committed, order, idx, current_migrations, current_head_migrations,
                   new_migrations, new_head_migrations, replacements, auto_revert, output>>

MigrationNameKeepsUnderscore(first_migration) == Drop(first_migration, 4)

MigrationNameWhole(first_migration) == first_migration

\* line 196
MigrationName(first_migration) == Drop(first_migration, 5)

\* lines 192-199, one application of the loop, the generator succeeding:
\* it numbers the migration after the ones it finds and gives it the name
GenerateInitial ==
    /\ pc = "generate_initial"
    /\ LET app == order[idx]
           first_migration == current_migrations[app][1]
           migration_name == MigrationName(first_migration)
       IN  IF ~startswith(first_migration, Prefix0001)
           THEN /\ Raise("AssertionError")
                /\ UNCHANGED <<fs, log, idx>>
           ELSE /\ fs' = WriteMigration(fs, app,
                             MigrationId(NextNumber(fs, app), migration_name), <<>>)
                /\ log' = Append(log, Event("makemigrations", app, migration_name))
                /\ error' = error
                /\ Advance("revert")
    /\ UNCHANGED <<committed, order, current_migrations, current_head_migrations,
                   new_migrations, new_head_migrations, replacements, to_restore,
                   auto_revert, output, block_calls>>

\* line 197 with the subprocess exiting non-zero: check=True raises
GenerateInitialFails ==
    /\ pc = "generate_initial"
    /\ LET app == order[idx]
           first_migration == current_migrations[app][1]
       IN  /\ startswith(first_migration, Prefix0001)
           /\ log' = Append(log, Event("makemigrations", app, MigrationName(first_migration)))
    /\ Raise("CalledProcessError")
    /\ UNCHANGED <<fs, committed, order, idx, current_migrations, current_head_migrations,
                   new_migrations, new_head_migrations, replacements, to_restore,
                   auto_revert, output, block_calls>>

ReplacerExitKeepsPatches(tree) == tree

\* lines 73-76: what leaving a Replacer block does to the tree
ReplacerExit(tree) ==
    IF auto_revert THEN GitCheckout(tree, committed, to_restore) ELSE tree

RevertPatchesSkipped ==
    /\ pc = "revert"
    /\ pc' = "generate_squash"
    /\ UNCHANGED <<fs, committed, error, order, idx, current_migrations,
                   current_head_migrations, new_migrations, new_head_migrations,
                   replacements, to_restore, auto_revert, output, log, block_calls>>

\* lines 71-76 for the block of line 138, whose body has completed
RevertPatches ==
    /\ pc = "revert"
    /\ fs' = ReplacerExit(fs)
    /\ log' = IF auto_revert THEN Append(log, Event("git checkout", "", <<"patches">>)) ELSE log
    /\ pc' = "generate_squash"
    /\ UNCHANGED <<committed, error, order, idx, current_migrations, current_head_migrations,
                   new_migrations, new_head_migrations, replacements, to_restore,
                   auto_revert, output, block_calls>>

----------------------------------------------------------------------------
\* lines 202-227: the squash migrations

\* What a squash migration written for `app` depends on: its application's
\* latest migration and, as cross[app] says, the other applications' latest
\* migration before or after this generator call
SquashDependencies(tree, app, changed, cross) ==
    LET leaf(a) == MigrationId(NextNumber(tree, a) - 1,
                               Drop(CHOOSE x \in MigrationStems(tree, a) :
                                        ParseNumber(x) = NextNumber(tree, a) - 1, 5))
        squash(a) == MigrationId(NextNumber(tree, a), squash_name)
        other(a) == IF cross[app] = "squash" /\ a \in changed
                    THEN << <<a, squash(a)>> >>
                    ELSE IF cross[app] = "none" THEN <<>>
                    ELSE << <<a, leaf(a)>> >>
        RECURSIVE others(_)
        others(apps) == IF apps = <<>> THEN <<>>
                        ELSE (IF apps[1] = app THEN <<>> ELSE other(apps[1]))
                             \o others(Tail(apps))
    IN  << <<app, leaf(app)>> >> \o others(AppSeq)

\* One generator run over all applications: a migration named squash_name
\* for every application it finds changes in, and a second one, numbered
\* next and depending on the first, where it splits an application's changes
RECURSIVE WriteSquashes(_, _, _, _)
WriteSquashes(tree, before, todo, args) ==
    IF todo = <<>> THEN tree
    ELSE LET app == todo[1]
             squash == MigrationId(NextNumber(before, app), squash_name)
             second == MigrationId(NextNumber(before, app) + 1, squash_name)
             one == WriteMigration(tree, app, squash,
                        SquashDependencies(before, app, args.changed, args.cross))
         IN  WriteSquashes(
                 IF app \notin args.changed THEN tree
                 ELSE IF app \notin args.split THEN one
                 ELSE WriteMigration(one, app, second, << <<app, squash>> >>),
                 before, Tail(todo), args)

\* lines 203-212, the generator succeeding
GenerateSquash ==
    /\ pc = "generate_squash"
    /\ \E changed \in SUBSET Apps, cross \in [Apps -> {"none", "initial", "squash"}] :
          /\ \A x \in Apps : \A y \in Apps \ {x} :
                ~(cross[x] = "squash" /\ cross[y] = "squash")
          /\ \A x \in Apps \ changed : cross[x] = "none"
          /\ \E split \in SUBSET changed :
                fs' = WriteSquashes(fs, fs, AppSeq,
                          [changed |-> changed, cross |-> cross, split |-> split])
    /\ log' = Append(log, Event("makemigrations", "", squash_name))
    /\ pc' = "add_replaces"
    /\ idx' = 1
    /\ UNCHANGED <<committed, error, order, current_migrations, current_head_migrations,
                   new_migrations, new_head_migrations, replacements, to_restore,
                   auto_revert, output, block_calls>>

\* line 205 with the subprocess exiting non-zero
GenerateSquashFails ==
    /\ pc = "generate_squash"
    /\ log' = Append(log, Event("makemigrations", "", squash_name))
    /\ Raise("CalledProcessError")
    /\ UNCHANGED <<fs, committed, order, idx, current_migrations, current_head_migrations,
                   new_migrations, new_head_migrations, replacements, to_restore,
                   auto_revert, output, block_calls>>

endswith(s, suffix) == Len(s) >= Len(suffix) /\ Drop(s, Len(s) - Len(suffix)) = suffix

\* lines 219-220: BASE_DIR.glob("{app}/migrations/*_{squash_name}.py")
GlobSquash(tree, app) ==
    {get_migration_path(app, x, "py") :
        x \in {y \in MigrationStems(tree, app) : endswith(y, <<"_">> \o squash_name)}}

ReplacedAll(migrations) == migrations

\* line 223: migrations[1:]
Replaced(migrations) == Tail(migrations)

\* lines 217-226, one application of the loop
AddReplaces ==
    /\ pc = "add_replaces"
    /\ LET app == order[idx]
           found == GlobSquash(fs, app)
       IN  IF found = {}
           THEN /\ Raise("StopIteration")
                /\ UNCHANGED <<fs, log, idx>>
           ELSE /\ \E path \in found :
                     fs' = [fs EXCEPT ![path] =
                               @ \o ReplacesText(app, Replaced(current_migrations[app]))]
                /\ log' = Append(log, Event("append", app, <<>>))
                /\ error' = error
                /\ Advance("relist")
    /\ UNCHANGED <<committed, order, current_migrations, current_head_migrations,
                   new_migrations, new_head_migrations, replacements, to_restore,
                   auto_revert, output, block_calls>>

----------------------------------------------------------------------------
\* lines 229-246: the dependency rewrite

RECURSIVE ReplacementsOfInitial(_, _)
ReplacementsOfInitial(apps, migrations) ==
    IF apps = <<>> THEN <<>>
    ELSE LET app == apps[1]
             new_dep == get_dep_entry(app, migrations[app][1])
         IN  << <<DepPattern(new_dep), new_dep>> >>
             \o ReplacementsOfInitial(Tail(apps), migrations)

\* lines 236-238
RECURSIVE Replacements(_, _)
Replacements(apps, migrations) ==
    IF apps = <<>> THEN <<>>
    ELSE LET app == apps[1]
             old_dep == get_dep_entry(app, migrations[app][2])
             new_dep == get_dep_entry(app, migrations[app][1])
         IN  << <<DepPattern(old_dep), new_dep>> >> \o Replacements(Tail(apps), migrations)

TwoMigrationsOrMore(migrations) ==
    Len(migrations) >= 2 /\ startswith(migrations[1], Prefix0001)

\* lines 234-235
TwoMigrations(migrations) ==
    Len(migrations) = 2 /\ startswith(migrations[1], Prefix0001)

\* lines 231-239: the second inventory, its assertions, and the block of
\* line 239 entered (to_restore = set(), auto_revert = False).  The glob
\* runs over the same application directories as at line 92 and yields them
\* in the same order.
Relist ==
    /\ pc = "relist"
    /\ LET l == list_migrations(fs)
       IN  /\ new_migrations' = l.migrations
           /\ new_head_migrations' = l.heads
           /\ IF \A app \in Apps : TwoMigrations(l.migrations[app])
              THEN /\ replacements' = Replacements(order, l.migrations)
                   /\ pc' = "rewrite"
                   /\ error' = error
                   /\ to_restore' = {}
                   /\ auto_revert' = FALSE
                   /\ block_calls' = <<>>
              ELSE /\ Raise("AssertionError")
                   /\ UNCHANGED <<replacements, to_restore, auto_revert, block_calls>>
    /\ idx' = 1
    /\ UNCHANGED <<fs, committed, order, current_migrations, current_head_migrations,
                   output, log>>

\* lines 240-245, one application of the loop
RewriteDependencies ==
    /\ pc = "rewrite"
    /\ LET app == order[idx]
           files == [k \in 1..Len(new_migrations[app]) |->
                        get_migration_path(app, new_migrations[app][k], "py")]
       IN  ReplaceCall("dependencies", replacements, files, TRUE, OpenBlock,
                       IF idx < Len(order) THEN "rewrite" ELSE "exit_rewrite")
    /\ idx' = IF idx < Len(order) THEN idx + 1 ELSE 1
    /\ UNCHANGED <<committed, order, current_migrations, current_head_migrations,
                   new_migrations, new_head_migrations, replacements, auto_revert, output>>

\* lines 71-76 for the block of line 239
ExitRewrite ==
    /\ pc = "exit_rewrite"
    /\ fs' = ReplacerExit(fs)
    /\ log' = IF auto_revert THEN Append(log, Event("git checkout", "", <<"rewrite">>)) ELSE log
    /\ pc' = "rename"
    /\ UNCHANGED <<committed, error, order, idx, current_migrations, current_head_migrations,
                   new_migrations, new_head_migrations, replacements, to_restore,
                   auto_revert, output, block_calls>>

----------------------------------------------------------------------------
\* lines 248-266: renumbering and restoring

NewHeadIsOriginal(orig_head, existing_head) == orig_head

NewHeadKeepsNumber(orig_head, existing_head) == Take(existing_head, 4) \o Drop(existing_head, 4)

\* line 252
NewHead(orig_head, existing_head) == Take(orig_head, 4) \o Drop(existing_head, 4)

\* lines 250-258, one application of the loop
RenameSquash ==
    /\ pc = "rename"
    /\ LET app == order[idx]
           orig_head == current_head_migrations[app]
           existing_head == new_head_migrations[app]
           new_head == NewHead(orig_head, existing_head)
           existing_path == get_migration_path(app, existing_head, "py")
           new_path == get_migration_path(app, new_head, "py")
           max_migration_path == get_migration_path(app, <<"max_migration">>, "txt")
       IN  IF existing_path \notin DOMAIN fs
           THEN /\ Raise("FileNotFoundError")
                /\ UNCHANGED <<fs, log, idx>>
           ELSE /\ fs' = WriteFile(Rename(fs, existing_path, new_path),
                                   max_migration_path, new_head \o <<"\n">>)
                /\ log' = Append(log, Event("rename", app, new_head))
                /\ error' = error
                /\ Advance("restore")
    /\ UNCHANGED <<committed, order, current_migrations, current_head_migrations,
                   new_migrations, new_head_migrations, replacements, to_restore,
                   auto_revert, output, block_calls>>

RestoredAll(migrations) == migrations

\* line 264: migrations[1:]
Restored(migrations) == Tail(migrations)

\* lines 263-265, one application of the loop
RestoreMigrations ==
    /\ pc = "restore"
    /\ LET app == order[idx]
       IN  /\ fs' = GitCheckout(fs, committed,
                                MigrationPaths(app, Restored(current_migrations[app])))
           /\ log' = Append(log, Event("git checkout", app, <<"migrations">>))
    /\ Advance("done")
    /\ UNCHANGED <<committed, error, order, current_migrations, current_head_migrations,
                   new_migrations, new_head_migrations, replacements, to_restore,
                   auto_revert, output, block_calls>>

Next ==
    \/ ListMigrations
    \/ CheckCounts
    \/ CheckSquashes
    \/ DeleteMigrations
    \/ ReplaceRelational
    \/ ReplaceIndexes
    \/ ReplaceAdmin
    \/ GenerateInitial
    \/ GenerateInitialFails
    \/ RevertPatches
    \/ GenerateSquash
    \/ GenerateSquashFails
    \/ AddReplaces
    \/ Relist
    \/ RewriteDependencies
    \/ ExitRewrite
    \/ RenameSquash
    \/ RestoreMigrations

Spec == Init /\ [][Next]_vars

----------------------------------------------------------------------------
\* The Replacer context manager on its own (lines 52-76): a block that makes
\* up to MaxCalls replace calls with any of these replacement lists, on any
\* source files, and then completes or raises

SourceFiles == {CommonModels, ShopModels, AdminApps}

BlockFiles == {CommonModels, AdminApps}

ChainedPatches ==
    << <<(<<"def ready">>), <<"def xready">> >>,
       <<(<<"def xready">>), <<"def yready">> >> >>

PatchLists == {RelationalPatches, ChainedPatches, <<ChainedPatches[2], ChainedPatches[1]>>}

FileLists == UNION {Orders(S) : S \in SUBSET BlockFiles}

InitR ==
    /\ InitWith({[app \in Apps |-> [first |-> 1, n |-> 2, head |-> 2, squash |-> 0]]},
                CommonModelsTexts, {<<"class Shop(Model):\n">>},
                {<<"from django.contrib.admin.apps import AdminConfig", "\n",
                   "def ready", "(self):\n">>})
    /\ order = AppSeq
    /\ pc = "block"
    /\ auto_revert \in BOOLEAN

\* lines 56-69, called from the body of the with statement
BlockReplace ==
    /\ pc = "block"
    /\ Len(block_calls) < MaxCalls
    /\ \E reps \in PatchLists, files \in FileLists, optional \in BOOLEAN :
          ReplaceCall("block", reps, files, optional, OpenBlock, "block")
    /\ UNCHANGED <<committed, order, idx, current_migrations, current_head_migrations,
                   new_migrations, new_head_migrations, replacements, auto_revert, output>>

\* lines 73-76: the body has completed and the generator resumes after
\* its yield
BlockExit ==
    /\ pc = "block"
    /\ fs' = ReplacerExit(fs)
    /\ log' = IF auto_revert THEN Append(log, Event("git checkout", "", <<"block">>)) ELSE log
    /\ pc' = "exited"
    /\ UNCHANGED <<committed, error, order, idx, current_migrations, current_head_migrations,
                   new_migrations, new_head_migrations, replacements, to_restore,
                   auto_revert, output, block_calls>>

\* line 71: the body raises; contextlib throws the exception into the
\* generator at its yield, which no try statement encloses, so lines 73-76
\* do not run
BlockRaises ==
    /\ pc = "block"
    /\ Raise("Exception")
    /\ UNCHANGED <<fs, committed, order, idx, current_migrations, current_head_migrations,
                   new_migrations, new_head_migrations, replacements, to_restore,
                   auto_revert, output, log, block_calls>>

NextR ==
    \/ BlockReplace
    \/ BlockExit
    \/ BlockRaises

SpecR == InitR /\ [][NextR]_vars

----------------------------------------------------------------------------
\* Properties

Range(q) == {q[k] : k \in DOMAIN q}

\* The tree as committed, before the run
OriginalMigrations(app) == sorted(MigrationStems(committed, app))
OriginalHead(app) == strip(committed[get_max_migration_path(app)])
OriginalSquash(app) ==
    \E x \in MigrationStems(committed, app) :
        MigrationReplaces(committed[get_migration_path(app, x, "py")]) # <<>>

IsGenerated(content) == Len(content) > 0 /\ content[1] = "class Migration:  # generated "

PatchEvents == {"relational", "indexes", "admin"}

\* C1 as stated: after a successful run every application's migration
\* directory holds exactly two migration files, an initial migration under
\* the original first migration's name and a squash migration whose first
\* four characters are those of the original head.
C1_TwoFilesOnly ==
    pc = "done" =>
        \A app \in Apps :
            LET stems == MigrationStems(fs, app)
                first == OriginalMigrations(app)[1]
            IN  /\ Cardinality(stems) = 2
                /\ first \in stems
                /\ \E sq \in stems \ {first} : Take(sq, 4) = Take(OriginalHead(app), 4)

\* C1 amended: after a successful run every application's migration
\* directory holds, besides the restored original migrations other than
\* the first, exactly two migration files: the regenerated initial migration
\* under the original first migration's name and a squash migration whose
\* first four characters are those of the original head.
C1_TwoFilesBesideRestored ==
    pc = "done" =>
        \A app \in Apps :
            LET stems == MigrationStems(fs, app)
                first == OriginalMigrations(app)[1]
                extra == stems \ Range(Tail(OriginalMigrations(app)))
            IN  /\ Range(Tail(OriginalMigrations(app))) \subseteq stems
                /\ Cardinality(extra) = 2
                /\ first \in extra
                /\ IsGenerated(fs[get_migration_path(app, first, "py")])
                /\ \E sq \in extra \ {first} :
                      /\ Take(sq, 4) = Take(OriginalHead(app), 4)
                      /\ MigrationReplaces(fs[get_migration_path(app, sq, "py")]) # <<>>

\* A run that completed for an application of three migrations whose head
\* pointer named the third
C1_Witness ==
    /\ pc = "done"
    /\ \E app \in Apps :
          /\ Len(OriginalMigrations(app)) = 3
          /\ MigrationId(3, squash_name) \in MigrationStems(fs, app)

\* C2: when some application has fewer than two migrations the run changes
\* no file and makes no subprocess call (no unlink, no patch, no generator,
\* no head pointer write, no checkout), and it returns early.
C2_InsufficientChangesNothing ==
    (\E app \in Apps : Cardinality(MigrationStems(committed, app)) < 2) =>
        /\ fs = committed
        /\ log = <<>>
        /\ pc \in {"start", "check_counts", "returned"}

C2_Witness ==
    /\ pc = "returned"
    /\ \E app \in Apps : Cardinality(MigrationStems(committed, app)) < 2
    /\ \E app \in Apps : Cardinality(MigrationStems(committed, app)) >= 2
    /\ output # <<>>

\* The commands C3 expects: one delete_squashed_migrations per affected
\* application in sorted order, the long-line reformat, the same commands
\* again, the normal reformat
C3_Expected ==
    LET affected == SelectSeq(AppSeq, OriginalSquash)
        cmds == [k \in 1..Len(affected) |->
                    <<"python manage.py delete_squashed_migrations ", affected[k], " --noinput">>]
    IN  cmds \o << <<"black -l 1000000 */migrations/*.py">> >>
        \o cmds \o << <<"black */migrations/*.py">> >>

\* C3: when every application has at least two migrations and some
\* migration declares replaces, the run changes no file and makes no
\* subprocess call, and it returns early with the remedial commands as the
\* last lines printed.
C3_SquashesChangeNothing ==
    ((\A app \in Apps : Cardinality(MigrationStems(committed, app)) >= 2)
     /\ (\E app \in Apps : OriginalSquash(app))) =>
        /\ fs = committed
        /\ log = <<>>
        /\ pc \in {"start", "check_counts", "check_squashes", "returned"}
        /\ pc = "returned" =>
              /\ Len(output) >= Len(C3_Expected)
              /\ SubSeq(output, Len(output) - Len(C3_Expected) + 1, Len(output)) = C3_Expected

\* Both applications hold a squash and the inventory lists b before a
C3_Witness ==
    /\ pc = "returned"
    /\ \A app \in Apps : Cardinality(MigrationStems(committed, app)) >= 2
    /\ \A app \in Apps : OriginalSquash(app)
    /\ order = <<"b", "a">>

\* The migration files of an application that were not committed
NewMigrations(app) == MigrationStems(fs, app) \ MigrationStems(committed, app)

\* C4: after a successful run the replaces list of every application's
\* squash migration is the original sorted migration list without its
\* first element, in order, each entry paired with the application.
C4_ReplacesAllButFirst ==
    pc = "done" =>
        \A app \in Apps :
            /\ NewMigrations(app) # {}
            /\ \A sq \in NewMigrations(app) :
                  MigrationReplaces(fs[get_migration_path(app, sq, "py")])
                      = [k \in 1..(Len(OriginalMigrations(app)) - 1) |->
                            <<app, OriginalMigrations(app)[k + 1]>>]

C4_Witness ==
    /\ pc = "done"
    /\ \E app \in Apps :
          /\ Len(OriginalMigrations(app)) = 3
          /\ \E sq \in NewMigrations(app) :
                Len(MigrationReplaces(fs[get_migration_path(app, sq, "py")])) = 2

\* C5: after a successful run every head pointer file names an identifier
\* whose first four characters are those of the head it named before the
\* run and whose remainder is that of the squash migration generated.
C5_HeadKeepsPrefix ==
    pc = "done" =>
        \A app \in Apps :
            LET head == strip(fs[get_max_migration_path(app)])
            IN  /\ Take(head, 4) = Take(OriginalHead(app), 4)
                /\ Drop(head, 4) = Drop(new_migrations[app][2], 4)
                /\ Drop(head, 4) = <<"_">> \o squash_name

\* The head pointer named migration 0003 and the generator wrote 0002
C5_Witness ==
    /\ pc = "done"
    /\ \E app \in Apps :
          /\ Take(OriginalHead(app), 4) = Pad4(3)
          /\ Take(new_migrations[app][2], 4) = Pad4(2)

\* C6: once a block with auto_revert completes and the context exits, every
\* file passed to a replace call of the block has its committed content
\* (the files had it when the block was entered).
C6_ExitRestoresPassedFiles ==
    (pc = "exited" /\ auto_revert) =>
        \A k \in DOMAIN block_calls :
            \A f \in Range(block_calls[k].files) : fs[f] = committed[f]

\* A block of two calls left with auto_revert: the second call found a file
\* the first had changed, and one call was optional and matched nothing in
\* one of its files
C6_Witness ==
    /\ pc = "exited"
    /\ auto_revert
    /\ Len(block_calls) = 2
    /\ \E f \in Range(block_calls[2].files) : block_calls[2].before[f] # committed[f]
    /\ \E k \in DOMAIN block_calls :
          /\ block_calls[k].optional
          /\ \E f \in Range(block_calls[k].files) :
                \A j \in DOMAIN block_calls[k].replacements :
                    subn(block_calls[k].replacements[j][1], block_calls[k].replacements[j][2],
                         block_calls[k].before[f])[2] = 0

\* C7: after a successful run every original migration but the first of
\* every application is back with its committed content, the first
\* migration's file holds the regenerated initial migration, and the only
\* files that differ from the committed tree are the initial migrations,
\* the renamed squash migrations and the head pointers.
C7_OnlyNewHistoryDiffers ==
    pc = "done" =>
        /\ \A app \in Apps :
              /\ \A k \in 2..Len(OriginalMigrations(app)) :
                    LET p == get_migration_path(app, OriginalMigrations(app)[k], "py")
                    IN  p \in DOMAIN fs /\ fs[p] = committed[p]
              /\ LET p == get_migration_path(app, OriginalMigrations(app)[1], "py")
                 IN  p \in DOMAIN fs /\ IsGenerated(fs[p]) /\ fs[p] # committed[p]
        /\ \A p \in DOMAIN fs \cup DOMAIN committed :
              (p \notin DOMAIN fs \/ p \notin DOMAIN committed \/ fs[p] # committed[p]) =>
                  \E app \in Apps :
                      \/ p = get_migration_path(app, OriginalMigrations(app)[1], "py")
                      \/ p = get_max_migration_path(app)
                      \/ \E i \in DOMAIN log :
                            /\ log[i].op = "rename" /\ log[i].app = app
                            /\ p = get_migration_path(app, log[i].arg, "py")

\* A completed run over three migrations in which the index patch matched
C7_Witness ==
    /\ pc = "done"
    /\ \E app \in Apps : Len(OriginalMigrations(app)) = 3
    /\ Len(committed[ShopModels]) > 1
    /\ \E i \in DOMAIN log : log[i] = Event("git checkout", "", <<"patches">>)

Last(q) == q[Len(q)]

\* The run ended by an exception raised inside the block of line 138
AbortedInPatchBlock ==
    /\ pc = "aborted"
    /\ log # <<>>
    /\ \/ Last(log).op = "replace" /\ Last(log).arg[1] \in PatchEvents
       \/ Last(log).op = "makemigrations" /\ Last(log).app # ""

\* C8: when the run aborts inside the auto-reverting patch block, the
\* block's revert still runs: the source files are back at their committed
\* content when the process ends.
C8_AbortInBlockReverts ==
    AbortedInPatchBlock => \A f \in SourceFiles : fs[f] = committed[f]

\* The content after the first k replacements of a list
RECURSIVE ContentAfter(_, _, _)
ContentAfter(reps, content, k) ==
    IF k = 0 THEN content
    ELSE subn(reps[k][1], reps[k][2], ContentAfter(reps, content, k - 1))[1]

\* Some pair of the list, taken in order, matches nothing in the content
\* the pairs before it have produced
SomePairMatchesNothing(reps, content) ==
    \E k \in 1..Len(reps) :
        subn(reps[k][1], reps[k][2], ContentAfter(reps, content, k - 1))[2] = 0

\* C9: right after a replace call: if it was not optional and some pair
\* matched nothing in some file, the call raised, the first such file kept
\* the content it had, the files before it are patched and the files after
\* it untouched; otherwise (all pairs matched, or the call was optional)
\* it did not raise and every file holds the content after all pairs.
C9_MandatoryAbortsBeforeWrite ==
    (pc \in {"block", "aborted"} /\ block_calls # <<>>) =>
        LET c == Last(block_calls)
            patched(f) == ContentAfter(c.replacements, c.before[f], Len(c.replacements))
            failing == {i \in DOMAIN c.files :
                           SomePairMatchesNothing(c.replacements, c.before[c.files[i]])}
        IN  /\ \A f \in DOMAIN fs \ Range(c.files) : fs[f] = c.before[f]
            /\ IF ~c.optional /\ failing # {}
               THEN LET j == CHOOSE i \in failing : \A h \in failing : i <= h
                    IN  /\ pc = "aborted" /\ error = "AssertionError"
                        /\ \A i \in DOMAIN c.files :
                              fs[c.files[i]] = IF i < j THEN patched(c.files[i])
                                               ELSE c.before[c.files[i]]
               ELSE /\ error # "AssertionError"
                    /\ \A i \in DOMAIN c.files : fs[c.files[i]] = patched(c.files[i])

\* A mandatory call on two files raised at the second and left the first
\* patched; in the first file the second pair matched only what the first
\* pair had written
C9_Witness ==
    /\ pc = "aborted"
    /\ error = "AssertionError"
    /\ LET c == Last(block_calls)
       IN  /\ ~c.optional
           /\ Len(c.files) = 2
           /\ fs[c.files[1]] # c.before[c.files[1]]
           /\ fs[c.files[2]] = c.before[c.files[2]]
           /\ subn(c.replacements[2][1], c.replacements[2][2], c.before[c.files[1]])[2] = 0

IsPatch(e) == e.op = "replace" /\ e.arg[1] \in PatchEvents

\* C10: every original migration file is deleted before any source file is
\* patched; every per-application generator call comes after the three
\* patch calls and before any revert; the global generator call comes after
\* the revert of the patches, with every source file at its committed
\* content.
C10_StepOrder ==
    /\ \A i \in DOMAIN log :
          IsPatch(log[i]) =>
              \A app \in Apps : \E j \in 1..(i - 1) : log[j] = Event("unlink", app, <<>>)
    /\ pc = "patch_relational" => \A app \in Apps : MigrationStems(fs, app) = {}
    /\ (\E f \in SourceFiles : fs[f] # committed[f]) =>
          \A app \in Apps : \A m \in Range(current_migrations[app]) :
              get_migration_path(app, m, "py") \in DOMAIN fs =>
                  IsGenerated(fs[get_migration_path(app, m, "py")])
    /\ \A i \in DOMAIN log :
          (log[i].op = "makemigrations" /\ log[i].app # "") =>
              /\ \A w \in PatchEvents : \E j \in 1..(i - 1) : log[j] = Event("replace", "", <<w>>)
              /\ \A j \in 1..(i - 1) : log[j].op # "git checkout"
    /\ pc = "generate_initial" =>
          fs[CommonModels] # committed[CommonModels] /\ fs[AdminApps] # committed[AdminApps]
    /\ \A i \in DOMAIN log :
          log[i] = Event("makemigrations", "", squash_name) =>
              \E j \in 1..(i - 1) :
                  /\ log[j] = Event("git checkout", "", <<"patches">>)
                  /\ \A k \in DOMAIN log : IsPatch(log[k]) => k < j
    /\ pc \in {"generate_squash", "add_replaces"} =>
          \A f \in SourceFiles : fs[f] = committed[f]

\* The global generator call has been made in a run whose index patch
\* found common/models.py already patched
C10_Witness ==
    /\ pc = "add_replaces"
    /\ Last(log) = Event("makemigrations", "", squash_name)
    /\ \E k \in DOMAIN block_calls :
          block_calls[k].before[CommonModels] # committed[CommonModels]

GeneratorCalls(app) == {i \in DOMAIN log : log[i].op = "makemigrations" /\ log[i].app = app}

\* C11: in a successful run the generator is called exactly once for each
\* application, with the original first migration's identifier less its
\* "0001_" as the name, and exactly once without an application, and every
\* application's squash migration carries the one name of that call.
C11_GeneratorCalls ==
    pc = "done" =>
        /\ \A app \in Apps :
              /\ Cardinality(GeneratorCalls(app)) = 1
              /\ \A i \in GeneratorCalls(app) :
                    Prefix0001 \o log[i].arg = OriginalMigrations(app)[1]
        /\ Cardinality(GeneratorCalls("")) = 1
        /\ \A i \in GeneratorCalls("") :
              /\ \A app \in Apps : \A j \in GeneratorCalls(app) : j < i
              /\ \A app \in Apps : \A sq \in NewMigrations(app) : Drop(sq, 5) = log[i].arg

\* A completed run that listed b before a: three generator calls
C11_Witness ==
    /\ pc = "done"
    /\ order = <<"b", "a">>
    /\ Cardinality({i \in DOMAIN log : log[i].op = "makemigrations"}) = 3
    /\ \A app \in Apps : NewMigrations(app) # {}

Relisted == new_migrations # <<>>

AfterRelistEvents ==
    {i \in DOMAIN log :
        \/ log[i].op = "replace" /\ log[i].arg = <<"dependencies">>
        \/ log[i].op = "rename"
        \/ log[i].op = "git checkout" /\ log[i].app # ""}

\* C12: when the second inventory finds an application that does not have
\* exactly two migrations, or whose first is not numbered 0001, the run
\* aborts there with no dependency rewritten, no squash renamed, no head
\* pointer written and nothing restored; the run is in or past the rewrite
\* only with two migrations per application, and renames and restores with
\* two migration files in every application's directory.
C12_AbortUnlessTwoMigrations ==
    /\ (Relisted /\ \E app \in Apps : \/ Len(new_migrations[app]) # 2
                                      \/ ~startswith(new_migrations[app][1], Prefix0001))
          => /\ pc = "aborted"
             /\ error = "AssertionError"
             /\ AfterRelistEvents = {}
             /\ \A app \in Apps :
                   fs[get_max_migration_path(app)] = new_head_migrations[app] \o <<"\n">>
    /\ pc \in {"rewrite", "exit_rewrite", "rename", "restore", "done"}
          => \A app \in Apps : /\ Len(new_migrations[app]) = 2
                               /\ startswith(new_migrations[app][1], Prefix0001)
    /\ (pc = "rename" \/ (pc = "restore" /\ idx = 1))
          => \A app \in Apps : Cardinality(MigrationStems(fs, app)) = 2

\* The generator split one application's changes over two squash
\* migrations and the run aborted at the second inventory
C12_Witness ==
    /\ pc = "aborted"
    /\ error = "AssertionError"
    /\ Relisted
    /\ \E app \in Apps : Len(new_migrations[app]) = 3
    /\ \E app \in Apps : Len(new_migrations[app]) = 2

GeneratedPaths ==
    {p \in DOMAIN fs : \E app \in Apps : p.dir = <<app, "migrations">>
                                         /\ p.ext = "py" /\ IsGenerated(fs[p])}

SquashReferences(content) ==
    {d \in Range(MigrationDependencies(content)) :
        \E app \in Apps : d = <<app, new_migrations[app][2]>>}

\* A dependency list with every entry naming an application's squash
\* migration turned into one naming that application's initial migration
OnInitials(deps) ==
    [k \in DOMAIN deps |->
        IF \E app \in Apps : deps[k] = <<app, new_migrations[app][2]>>
        THEN <<deps[k][1], new_migrations[deps[k][1]][1]>>
        ELSE deps[k]]

BeforeRewrite == block_calls[1].before

\* C13: once the dependency rewrite has run over every application, no
\* regenerated migration of any application depends on any application's
\* squash migration, under the name it had or the name it is given; each
\* such dependency has become one on that application's initial migration,
\* the other entries and the replaces lists being as the generator and the
\* annotation left them; and this stays so to the end of the run.
C13_NoSquashDependencies ==
    /\ pc \in {"exit_rewrite", "rename", "restore", "done"} =>
          /\ ~auto_revert
          /\ \A p \in GeneratedPaths :
                /\ SquashReferences(fs[p]) = {}
                /\ \A d \in Range(MigrationDependencies(fs[p])) :
                      \A app \in Apps : d # <<app, strip(fs[get_max_migration_path(app)])>>
    /\ (pc = "exit_rewrite" \/ (pc = "rename" /\ idx = 1)) =>
          \A app \in Apps : \A k \in 1..2 :
              LET p == get_migration_path(app, new_migrations[app][k], "py")
              IN  /\ p \in GeneratedPaths
                  /\ MigrationDependencies(fs[p])
                        = OnInitials(MigrationDependencies(BeforeRewrite[p]))
                  /\ MigrationReplaces(fs[p]) = MigrationReplaces(BeforeRewrite[p])

\* A run that completed although one application's squash migration was
\* generated with a dependency on the other application's squash migration
C13_Witness ==
    /\ pc = "done"
    /\ \E app \in Apps : \E other \in Apps \ {app} :
          <<other, new_migrations[other][2]>> \in
              Range(MigrationDependencies(
                        BeforeRewrite[get_migration_path(app, new_migrations[app][2], "py")]))

Deleted == \A app \in Apps : \E i \in DOMAIN log : log[i] = Event("unlink", app, <<>>)

OriginalPaths(app) == MigrationPaths(app, OriginalMigrations(app))

\* C14: a run that aborts after the deletion of the original migrations
\* has restored none of them: at its end every original migration file
\* is absent, unless the generator wrote a migration of that name.
C14_AbortRestoresNothing ==
    (pc = "aborted" /\ Deleted) =>
        /\ \A i \in DOMAIN log : ~(log[i].op = "git checkout" /\ log[i].app # "")
        /\ \A app \in Apps : \A p \in OriginalPaths(app) :
              p \notin DOMAIN fs \/ IsGenerated(fs[p])

\* A run that aborted with the initial migrations regenerated and an
\* original migration of each application missing
C14_Witness ==
    /\ pc = "aborted"
    /\ Deleted
    /\ \A app \in Apps :
          /\ \E p \in OriginalPaths(app) : p \in DOMAIN fs /\ IsGenerated(fs[p])
          /\ \E p \in OriginalPaths(app) : p \notin DOMAIN fs

HeadPointer(app) == strip(fs[get_max_migration_path(app)])

HeadPath(app) == get_migration_path(app, HeadPointer(app), "py")

ExpectedReplaces(app) ==
    [k \in 1..(Len(OriginalMigrations(app)) - 1) |-> <<app, OriginalMigrations(app)[k + 1]>>]

\* C15: after a successful run every application's head pointer names a
\* migration file that exists in the application's directory, and that
\* file is the generated squash migration with the replaces list appended
\* to it: the file renamed was the one the head pointer named after the
\* regeneration, the second of the two migrations of the second inventory.
C15_HeadNamesSquash ==
    pc = "done" =>
        \A app \in Apps :
            /\ new_head_migrations[app] = new_migrations[app][2]
            /\ HeadPointer(app) = Take(OriginalHead(app), 4) \o Drop(new_migrations[app][2], 4)
            /\ HeadPath(app) \in DOMAIN fs
            /\ IsGenerated(fs[HeadPath(app)])
            /\ endswith(HeadPointer(app), <<"_">> \o squash_name)
            /\ MigrationReplaces(fs[HeadPath(app)]) = ExpectedReplaces(app)
            /\ ExpectedReplaces(app) # <<>>
            /\ fs[get_max_migration_path(app)] = HeadPointer(app) \o <<"\n">>

\* A completed run in which an application's squash migration was renamed
\* to a number other than the one it was generated with
C15_Witness ==
    /\ pc = "done"
    /\ \E app \in Apps :
          /\ HeadPointer(app) # new_migrations[app][2]
          /\ get_migration_path(app, new_migrations[app][2], "py") \notin DOMAIN fs
          /\ Len(MigrationReplaces(fs[HeadPath(app)])) = 2

GeneratedOf(app) == {p \in GeneratedPaths : p.dir = <<app, "migrations">>}

InitialPath(app) == get_migration_path(app, new_migrations[app][1], "py")

RestoredPaths(app) ==
    {p \in MigrationPaths(app, OriginalMigrations(app)) :
        \E i \in DOMAIN log : log[i] = Event("git checkout", app, <<"migrations">>)
                               /\ p \in DOMAIN fs /\ fs[p] = committed[p]
                               /\ ~IsGenerated(fs[p])}

\* C16: neither the renaming of the squash migrations nor the final restore
\* overwrites a regenerated migration: where a rename is about to happen
\* its target is its source or a path where there is no file, and from the
\* first rename to the end every application keeps its two generated
\* files, the initial migration under its name and the squash migration
\* under the name the head pointer gives, neither of them a restored path.
C16_NothingOverwritten ==
    /\ pc = "rename" =>
          LET app == order[idx]
              source == HeadPath(app)
              target == get_migration_path(app,
                            Take(OriginalHead(app), 4) \o Drop(HeadPointer(app), 4), "py")
          IN  /\ source \in DOMAIN fs
              /\ target = source \/ target \notin DOMAIN fs
    /\ pc \in {"rename", "restore", "done"} =>
          \A app \in Apps :
              /\ Cardinality(GeneratedOf(app)) = 2
              /\ GeneratedOf(app) = {InitialPath(app), HeadPath(app)}
              /\ RestoredPaths(app) \cap {InitialPath(app), HeadPath(app)} = {}
    /\ pc = "done" =>
          \A app \in Apps :
              RestoredPaths(app) = MigrationPaths(app, Tail(OriginalMigrations(app)))

\* A completed run that renamed one application's squash migration onto
\* a new path and another's onto itself, and restored after both
C16_Witness ==
    /\ pc = "done"
    /\ \E app \in Apps : HeadPointer(app) # new_migrations[app][2]
    /\ \E app \in Apps : HeadPointer(app) = new_migrations[app][2]
    /\ \A app \in Apps : RestoredPaths(app) # {}

====
